---- MODULE Spec2Model ----
(***************************************************************************)
(* Model of backend/server.py: the disaster-risk classifier                *)
(* (calculate_disaster_risk), the weather / alert / status request         *)
(* handlers, the router that dispatches requests to them, and the three    *)
(* MongoDB collections they write.                                         *)
(*                                                                         *)
(* Numbers.  Weather readings are integers (whole degrees C, percent, hPa, *)
(* m/s).  A risk score is kept as an exact integer number of 1/ScoreScale  *)
(* units, so 0.8 is 160 and the fallback expression                        *)
(* (temp - 20)/100 + (100 - humidity)/200 is 2*(temp - 20) + (100 -        *)
(* humidity), without rounding.                                            *)
(***************************************************************************)
EXTENDS Integers, Sequences, FiniteSets, TLC

VARIABLES
    WEATHER_API_KEY,   \* os.environ.get('OPENWEATHER_API_KEY'), fixed at start-up
    weather_data,      \* db.weather_data : sequence of stored WeatherData documents
    alerts,            \* db.alerts       : sequence of stored DisasterAlert documents
    status_checks,     \* db.status_checks: sequence of stored StatusCheck documents
    now,               \* datetime.utcnow(), as a tick count
    uuids,             \* number of uuid.uuid4() values drawn so far
    provider_calls,    \* number of requests.get calls made to the provider so far
    request,           \* the request being answered last
    response,          \* the answer to it
    handled,           \* what serving it involved: endpoint, provider calls, fetched data
    inflight,          \* concurrent city requests: where each coroutine stands
    weather_in,        \* classifier harness: the snapshot handed to the classifier
    risk_out           \* classifier harness: what calculate_disaster_risk returned

vars == <<WEATHER_API_KEY, weather_data, alerts, status_checks, now, uuids,
          provider_calls, request, response, handled, inflight, weather_in, risk_out>>

(***************************************************************************)
(* Score arithmetic                                                        *)
(***************************************************************************)

\* common denominator of the two fractions of the fallback formula
ScoreScale == 200

\* the decimal literal n/10 (0.8, 0.6, ...) in score units
Tenths(n) == (n * ScoreScale) \div 10

MinOf(a, b) == IF a <= b THEN a ELSE b

\* Python max(list) of a non-empty list
RECURSIVE MaxOf(_)
MaxOf(s) ==
    IF Len(s) = 1 THEN s[1]
    ELSE LET m == MaxOf(Tail(s)) IN IF s[1] >= m THEN s[1] ELSE m

\* Python sep.join(list)
RECURSIVE Join(_, _)
Join(sep, s) ==
    IF Len(s) = 0 THEN ""
    ELSE IF Len(s) = 1 THEN s[1]
    ELSE s[1] \o sep \o Join(sep, Tail(s))

(***************************************************************************)
(* calculate_disaster_risk                                                 *)
(* Each rule yields the <<weight, label>> pairs it appends (none or one).  *)
(***************************************************************************)

HeatwaveRule(temp) ==
    IF temp > 40 THEN << <<Tenths(8), "Extreme Heatwave">> >>
    ELSE IF temp > 35 THEN << <<Tenths(6), "Heatwave">> >>
    ELSE << >>

FloodRule(humidity, pressure) ==
    IF humidity > 80 /\ pressure < 1000 THEN << <<Tenths(7), "Flood Risk">> >>
    ELSE << >>

\* variant: the severe branch shares the 1000 hPa bound of the plain storm branch
StormRule_SharedPressure(wind_speed, pressure) ==
    IF wind_speed > 20 /\ pressure < 1000 THEN << <<Tenths(9), "Severe Storm/Cyclone">> >>
    ELSE IF wind_speed > 15 /\ pressure < 1000 THEN << <<Tenths(6), "Storm">> >>
    ELSE << >>

StormRule(wind_speed, pressure) ==
    IF wind_speed > 20 /\ pressure < 990 THEN << <<Tenths(9), "Severe Storm/Cyclone">> >>
    ELSE IF wind_speed > 15 /\ pressure < 1000 THEN << <<Tenths(6), "Storm">> >>
    ELSE << >>

DroughtRule(humidity, pressure, temp) ==
    IF humidity < 30 /\ pressure > 1020 /\ temp > 30 THEN << <<Tenths(5), "Drought Risk">> >>
    ELSE << >>

\* variant: the storm block placed before the flood block
Triggered_StormFirst(data) ==
    HeatwaveRule(data.main.temp)
        \o StormRule(data.wind.speed, data.main.pressure)
        \o FloodRule(data.main.humidity, data.main.pressure)
        \o DroughtRule(data.main.humidity, data.main.pressure, data.main.temp)

\* the appended pairs, in the order the code appends them
Triggered(data) ==
    HeatwaveRule(data.main.temp)
        \o FloodRule(data.main.humidity, data.main.pressure)
        \o StormRule(data.wind.speed, data.main.pressure)
        \o DroughtRule(data.main.humidity, data.main.pressure, data.main.temp)

risk_factors(data) ==
    LET triggered == Triggered(data) IN [i \in 1..Len(triggered) |-> triggered[i][1]]

disaster_types(data) ==
    LET triggered == Triggered(data) IN [i \in 1..Len(triggered) |-> triggered[i][2]]

\* variant: the min(0.1, ...) cap left out
FallbackScore_NoCap(temp, humidity) ==
    (temp - 20) * (ScoreScale \div 100) + (100 - humidity) * (ScoreScale \div 200)

\* min(0.1, (temp - 20) / 100 + (100 - humidity) / 200)
FallbackScore(temp, humidity) ==
    MinOf(Tenths(1), (temp - 20) * (ScoreScale \div 100)
                       + (100 - humidity) * (ScoreScale \div 200))

\* variant: strict comparisons
BucketLevel_Strict(risk_score) ==
    IF risk_score > Tenths(7) THEN "HIGH"
    ELSE IF risk_score > Tenths(4) THEN "MEDIUM"
    ELSE "LOW"

\* the if / elif / else over risk_score
BucketLevel(risk_score) ==
    IF risk_score >= Tenths(7) THEN "HIGH"
    ELSE IF risk_score >= Tenths(4) THEN "MEDIUM"
    ELSE "LOW"

\* returns the tuple (risk_level, risk_score, disaster_type)
calculate_disaster_risk(data) ==
    LET factors == risk_factors(data)
    IN  IF factors = << >>
        THEN << "LOW",
                FallbackScore(data.main.temp, data.main.humidity),
                "Normal Conditions" >>
        ELSE LET risk_score == MaxOf(factors)
             IN  << BucketLevel(risk_score), risk_score, Join(", ", disaster_types(data)) >>

(***************************************************************************)
(* Classifier harness: one snapshot from a grid of readings around every   *)
(* threshold of the rules, classified once.                                *)
(***************************************************************************)

Temperatures == {-30, 0, 19, 20, 22, 30, 31, 35, 36, 38, 40, 41, 42, 46, 60}
Humidities   == {0, 20, 25, 29, 30, 65, 80, 81, 85, 100, 120}
Pressures    == {980, 989, 990, 995, 999, 1000, 1015, 1020, 1021, 1025}
WindSpeeds   == {0, 5, 8, 15, 16, 18, 20, 21, 22, 25}

Reading(t, h, p, w) == [main |-> [temp |-> t, humidity |-> h, pressure |-> p],
                        wind |-> [speed |-> w]]

NoRisk == << >>

NoRequest == [method |-> "", path |-> << >>]

NoResponse == [status |-> 0]

NotHandled == [endpoint |-> "", calls |-> 0, outcomes |-> << >>]

InitRisk ==
    /\ weather_in \in {Reading(t, h, p, w) :
                          t \in Temperatures, h \in Humidities,
                          p \in Pressures, w \in WindSpeeds}
    /\ risk_out = NoRisk
    /\ WEATHER_API_KEY = "None"
    /\ weather_data = << >>
    /\ alerts = << >>
    /\ status_checks = << >>
    /\ now = 0
    /\ uuids = 0
    /\ provider_calls = 0
    /\ request = NoRequest
    /\ response = NoResponse
    /\ handled = NotHandled
    /\ inflight = << >>

Classify ==
    /\ risk_out = NoRisk
    /\ risk_out' = calculate_disaster_risk(weather_in)
    /\ UNCHANGED <<WEATHER_API_KEY, weather_data, alerts, status_checks, now, uuids,
                   provider_calls, request, response, handled, inflight, weather_in>>

NextRisk == Classify

SpecRisk == InitRisk /\ [][NextRisk]_vars

(***************************************************************************)
(* Properties of the classifier (checked under SpecRisk)                   *)
(***************************************************************************)

Classified == risk_out # NoRisk

AnyRule == Triggered(weather_in) # << >>

\* (temp - 20)/100 + (100 - humidity)/200 of the classified snapshot, in score units
RawFallback ==
    (weather_in.main.temp - 20) * (ScoreScale \div 100)
        + (100 - weather_in.main.humidity) * (ScoreScale \div 200)

\* C1: whenever at least one rule triggers, the returned score lies in
\* [0, 0.9] and the returned level is exactly the bucket of the score:
\* HIGH iff score >= 0.7, MEDIUM iff 0.4 <= score < 0.7, LOW iff score < 0.4.
C1_TriggeredScoreAndBucket ==
    (Classified /\ AnyRule) =>
        /\ 0 <= risk_out[2] /\ risk_out[2] <= Tenths(9)
        /\ (risk_out[1] = "HIGH") <=> (risk_out[2] >= Tenths(7))
        /\ (risk_out[1] = "MEDIUM") <=> (Tenths(4) <= risk_out[2] /\ risk_out[2] < Tenths(7))
        /\ (risk_out[1] = "LOW") <=> (risk_out[2] < Tenths(4))

\* a snapshot whose only rule is the flood rule: score exactly 0.7, level HIGH
C1_Witness ==
    /\ Classified /\ AnyRule
    /\ risk_out[2] = Tenths(7)
    /\ risk_out[1] = "HIGH"

\* C2 as stated: the score of every snapshot, fallback included, is in [0, 1].
C2_ScoreInUnitInterval ==
    Classified => (0 <= risk_out[2] /\ risk_out[2] <= ScoreScale)

\* C2 amended: the score of every snapshot is at most 1 (at most 0.1 on the
\* fallback branch); it is at least 0 whenever a rule triggers; on the
\* fallback branch it is negative exactly when
\* (temp - 20)/100 + (100 - humidity)/200 is negative, and then equals it.
C2_ScoreUpperBoundOnly ==
    Classified =>
        /\ risk_out[2] <= ScoreScale
        /\ AnyRule => risk_out[2] >= 0
        /\ ~AnyRule => risk_out[2] <= Tenths(1)
        /\ ~AnyRule => ((risk_out[2] < 0) <=> (RawFallback < 0))
        /\ (~AnyRule /\ RawFallback < 0) => risk_out[2] = RawFallback

\* a cold, saturated snapshot on the fallback branch with a negative score
C2_Witness ==
    /\ Classified /\ ~AnyRule
    /\ weather_in.main.temp = 0 /\ weather_in.main.humidity = 100
    /\ risk_out[2] = -(ScoreScale \div 5)

Mumbai42 == Reading(42, 85, 995, 22)

\* C3 as stated: temperature 42, humidity 85, pressure 995, wind 22 triggers
\* Extreme Heatwave (0.8), Flood Risk (0.7) and Severe Storm/Cyclone (0.9)
\* and returns (HIGH, 0.9, "Extreme Heatwave, Flood Risk, Severe Storm/Cyclone").
C3_SevereStormAt995 ==
    (Classified /\ weather_in = Mumbai42) =>
        /\ Triggered(weather_in) = << <<Tenths(8), "Extreme Heatwave">>,
                                      <<Tenths(7), "Flood Risk">>,
                                      <<Tenths(9), "Severe Storm/Cyclone">> >>
        /\ risk_out = << "HIGH", Tenths(9),
                         "Extreme Heatwave, Flood Risk, Severe Storm/Cyclone" >>

\* C3 amended: that snapshot triggers Extreme Heatwave (0.8), Flood Risk
\* (0.7) and Storm (0.6), pressure 995 not being below 990, and returns
\* (HIGH, 0.8, "Extreme Heatwave, Flood Risk, Storm").
C3_PlainStormAt995 ==
    (Classified /\ weather_in = Mumbai42) =>
        /\ Triggered(weather_in) = << <<Tenths(8), "Extreme Heatwave">>,
                                      <<Tenths(7), "Flood Risk">>,
                                      <<Tenths(6), "Storm">> >>
        /\ risk_out = << "HIGH", Tenths(8), "Extreme Heatwave, Flood Risk, Storm" >>

C3_Witness ==
    /\ Classified
    /\ weather_in = Mumbai42
    /\ risk_out[3] = "Extreme Heatwave, Flood Risk, Storm"

(***************************************************************************)
(* Reference classifier of C4: four rule groups, each contributing at most *)
(* one (weight, label), stated group by group and without the code's       *)
(* append order.                                                           *)
(***************************************************************************)

NoLabel == [weight |-> -1, label |-> ""]

RefGroup(g, t, h, p, w) ==
    CASE g = 1 /\ t > 40 -> [weight |-> Tenths(8), label |-> "Extreme Heatwave"]
      [] g = 1 /\ t > 35 /\ t <= 40 -> [weight |-> Tenths(6), label |-> "Heatwave"]
      [] g = 2 /\ h > 80 /\ p < 1000 -> [weight |-> Tenths(7), label |-> "Flood Risk"]
      [] g = 3 /\ w > 20 /\ p < 990 ->
            [weight |-> Tenths(9), label |-> "Severe Storm/Cyclone"]
      [] g = 3 /\ w > 15 /\ p < 1000 /\ ~(w > 20 /\ p < 990) ->
            [weight |-> Tenths(6), label |-> "Storm"]
      [] g = 4 /\ h < 30 /\ p > 1020 /\ t > 30 ->
            [weight |-> Tenths(5), label |-> "Drought Risk"]
      [] OTHER -> NoLabel

RefGroups(d) ==
    [g \in 1..4 |-> RefGroup(g, d.main.temp, d.main.humidity, d.main.pressure, d.wind.speed)]

RefFired(d) == {g \in 1..4 : RefGroups(d)[g] # NoLabel}

RefScore(d) ==
    IF RefFired(d) = {}
    THEN LET raw == 2 * (d.main.temp - 20) + (100 - d.main.humidity)
         IN  IF raw < ScoreScale \div 10 THEN raw ELSE ScoreScale \div 10
    ELSE CHOOSE m \in {RefGroups(d)[g].weight : g \in RefFired(d)} :
            \A g \in RefFired(d) : RefGroups(d)[g].weight <= m

RefLevel(d) ==
    IF RefFired(d) = {} THEN "LOW"
    ELSE IF 10 * RefScore(d) >= 7 * ScoreScale THEN "HIGH"
    ELSE IF 10 * RefScore(d) >= 4 * ScoreScale THEN "MEDIUM"
    ELSE "LOW"

RECURSIVE RefLabels(_, _)
RefLabels(d, g) ==
    IF g > 4 THEN ""
    ELSE LET rest == RefLabels(d, g + 1)
             mine == RefGroups(d)[g].label
         IN  IF g \notin RefFired(d) THEN rest
             ELSE IF rest = "" THEN mine
             ELSE mine \o ", " \o rest

RefType(d) == IF RefFired(d) = {} THEN "Normal Conditions" ELSE RefLabels(d, 1)

\* C4: for every snapshot the classifier returns what the reference
\* classifier returns: the fallback triple (LOW, min(0.1, ...) with no lower
\* clamp, "Normal Conditions") when no group triggers, otherwise the maximum
\* triggered weight, its bucket, and the triggered labels joined with ", "
\* in the order heatwave, flood, storm, drought, one label per group at most.
C4_EqualsReference ==
    Classified =>
        /\ risk_out = << RefLevel(weather_in), RefScore(weather_in), RefType(weather_in) >>
        /\ Len(Triggered(weather_in)) = Cardinality(RefFired(weather_in))

\* a snapshot that triggers flood and storm together, and not the maximum first
C4_Witness ==
    /\ Classified
    /\ RefFired(weather_in) = {2, 3}
    /\ risk_out = << "HIGH", Tenths(9), "Flood Risk, Severe Storm/Cyclone" >>

(***************************************************************************)
(* The service: configuration, router, provider, documents                 *)
(***************************************************************************)

\* number of requests served in one behaviour
MaxRequests == 2

\* Python None
NoneValue == "<None>"

\* the key the bulk endpoint treats as invalid
DemoKey == "374ab74fdf2a6686d8b177cff0b24af0"

KeyValues == {NoneValue, "", DemoKey, "live-key"}

\* variant: only the empty string counts as missing
KeyMissing_EmptyOnly(key) == key = ""

\* not WEATHER_API_KEY
KeyMissing(key) == key = NoneValue \/ key = ""

\* the routes of api_router in registration order; a "{...}" segment is a
\* path parameter
Routes ==
    << [method |-> "GET",  path |-> <<"api", "weather", "{city}">>,
        endpoint |-> "get_weather_by_city"],
       [method |-> "GET",  path |-> <<"api", "weather", "coordinates", "{lat}", "{lon}">>,
        endpoint |-> "get_weather_by_coordinates"],
       [method |-> "GET",  path |-> <<"api", "alerts">>,
        endpoint |-> "get_active_alerts"],
       [method |-> "GET",  path |-> <<"api", "weather", "multiple">>,
        endpoint |-> "get_weather_multiple_cities"],
       [method |-> "GET",  path |-> <<"api", "">>,
        endpoint |-> "root"],
       [method |-> "POST", path |-> <<"api", "status">>,
        endpoint |-> "create_status_check"],
       [method |-> "GET",  path |-> <<"api", "status">>,
        endpoint |-> "get_status_checks"] >>

PathParams == {"{city}", "{lat}", "{lon}"}

\* a path parameter matches any non-empty segment, a literal only itself
SegmentMatches(pattern, segment) ==
    IF pattern \in PathParams THEN segment # "" ELSE segment = pattern

PathMatches(pattern, path) ==
    /\ Len(pattern) = Len(path)
    /\ \A i \in 1..Len(pattern) : SegmentMatches(pattern[i], path[i])

\* the router walks its routes in order and takes the first full match
FirstMatch(matching) == CHOOSE i \in matching : \A j \in matching : i <= j

\* the endpoint a request is dispatched to; a request that names a handler
\* directly (method "CALL") is an in-process call of that coroutine
Endpoint(req) ==
    IF req.method = "CALL" THEN req.path[1]
    ELSE LET full == {i \in 1..Len(Routes) :
                        PathMatches(Routes[i].path, req.path) /\ Routes[i].method = req.method}
             partial == {i \in 1..Len(Routes) : PathMatches(Routes[i].path, req.path)}
         IN  IF full # {} THEN Routes[FirstMatch(full)].endpoint
             ELSE IF partial # {} THEN "405"
             ELSE "404"

Get(path) == [method |-> "GET", path |-> path]

Requests ==
    { Get(<<"api", "weather", "Mumbai">>),
      Get(<<"api", "weather", "multiple">>),
      Get(<<"api", "weather", "coordinates", "19.07", "72.87">>),
      Get(<<"api", "alerts">>),
      Get(<<"api", "">>),
      Get(<<"api", "status">>),
      [method |-> "POST", path |-> <<"api", "status">>, json |-> [client_name |-> "probe"]],
      [method |-> "POST", path |-> <<"api", "alerts">>],
      Get(<<"api", "forecast">>),
      [method |-> "CALL", path |-> <<"get_weather_multiple_cities">>] }

\* a JSON body of the provider's current-weather answer
Observation(name, country, t, h, p, w, wind_extra, description) ==
    [name |-> name, sys |-> [country |-> country],
     coord |-> [lat |-> 19, lon |-> 72],
     main |-> [temp |-> t, humidity |-> h, pressure |-> p],
     wind |-> [speed |-> w] @@ wind_extra,
     weather |-> << [description |-> description] >>]

ProviderData ==
    { Observation("Mumbai", "IN", 42, 85, 995, 22, [deg |-> 270], "heavy rain"),
      Observation("Tokyo", "JP", 38, 78, 1002, 18, [deg |-> 90], "thunderstorm"),
      Observation("London", "GB", 22, 65, 1015, 5, [deg |-> 180], "partly cloudy"),
      Observation("Oslo", "NO", 0, 100, 1010, 3, << >>, "fog") }

\* HTTP statuses the provider answers a failed query with
ProviderErrorStatuses == {404, 500}

\* what one requests.get(url, params) can do: raise, answer with an error
\* status, answer 200 with an observation, or answer 200 with another body
ProviderOutcomes ==
    { [kind |-> "exception", error |-> "Connection refused"] }
        \cup { [kind |-> "response", status_code |-> c, body |-> [cod |-> c]] :
                 c \in ProviderErrorStatuses }
        \cup { [kind |-> "response", status_code |-> 200, body |-> d] : d \in ProviderData }
        \cup { [kind |-> "response", status_code |-> 200, body |-> [cod |-> 200]] }

\* variant: only server errors raise
raise_for_status_ServerOnly(status_code) == 500 <= status_code /\ status_code < 600

\* Response.raise_for_status raises HTTPError for 4xx and 5xx
raise_for_status(status_code) == 400 <= status_code /\ status_code < 600

\* str(HTTPError)
HTTPErrorText(status_code) ==
    ToString(status_code)
        \o (IF status_code < 500 THEN " Client Error" ELSE " Server Error")

\* the keys the handlers subscript; a body without them raises KeyError
IsObservation(body) ==
    {"name", "sys", "coord", "main", "wind", "weather"} \subseteq DOMAIN body

\* WeatherData(...).dict(): the model has no disaster_type field
WeatherData(data, risk_level, risk_score, id, timestamp) ==
    [id |-> id,
     city |-> data.name,
     country |-> data.sys.country,
     lat |-> data.coord.lat,
     lon |-> data.coord.lon,
     temperature |-> data.main.temp,
     humidity |-> data.main.humidity,
     pressure |-> data.main.pressure,
     wind_speed |-> data.wind.speed,
     wind_direction |-> IF "deg" \in DOMAIN data.wind THEN data.wind.deg ELSE 0,
     description |-> data.weather[1].description,
     timestamp |-> timestamp,
     risk_level |-> risk_level,
     risk_score |-> risk_score]

\* DisasterAlert(...).dict()
DisasterAlert(city, disaster_type, risk_level, message, id, timestamp) ==
    [id |-> id, city |-> city, disaster_type |-> disaster_type,
     risk_level |-> risk_level, message |-> message,
     timestamp |-> timestamp, active |-> TRUE]

\* the f-string of the alert message
AlertMessage(data, risk_level, disaster_type) ==
    risk_level \o " risk of " \o disaster_type \o " in " \o data.name
        \o ". Current conditions: " \o data.weather[1].description
        \o ", Temp: " \o ToString(data.main.temp)
        \o " C, Humidity: " \o ToString(data.main.humidity) \o "%"

\* StatusCheck(...).dict()
StatusCheck(client_name, id, timestamp) ==
    [id |-> id, client_name |-> client_name, timestamp |-> timestamp]

\* variant: LOW snapshots raise an alert too
NeedsAlert_Always(risk_level) == risk_level \in {"HIGH", "MEDIUM", "LOW"}

\* risk_level in ["HIGH", "MEDIUM"]
NeedsAlert(risk_level) == risk_level \in {"HIGH", "MEDIUM"}

HTTPException(status_code, detail) == [status |-> status_code, detail |-> detail]

\* an exception no handler catches
InternalServerError == [status |-> 500, detail |-> "Internal Server Error"]

\* variant: a document of the same city replaces the stored one
insert_one_UpsertByCity(collection, document) ==
    IF "city" \in DOMAIN document
          /\ \E i \in 1..Len(collection) : collection[i].city = document.city
    THEN LET i == CHOOSE k \in 1..Len(collection) : collection[k].city = document.city
         IN  [collection EXCEPT ![i] = document]
    ELSE Append(collection, document)

\* collection.insert_one(document): the collection with the document added
insert_one(collection, document) == Append(collection, document)

\* the collections outlive the process: what an earlier run that served one
\* GET /api/weather/Mumbai left behind (ids and timestamps before this run's)
EarlierObservation ==
    Observation("Mumbai", "IN", 42, 85, 995, 22, [deg |-> 270], "heavy rain")

EarlierSnapshot ==
    LET risk == calculate_disaster_risk(EarlierObservation)
    IN  WeatherData(EarlierObservation, risk[1], risk[2], -2, -1)

EarlierAlert ==
    LET risk == calculate_disaster_risk(EarlierObservation)
    IN  DisasterAlert(EarlierObservation.name, risk[3], risk[1],
                      AlertMessage(EarlierObservation, risk[1], risk[3]), -1, -1)

Init ==
    /\ WEATHER_API_KEY \in KeyValues
    /\ \/ weather_data = << >> /\ alerts = << >>
       \/ weather_data = <<EarlierSnapshot>> /\ alerts = <<EarlierAlert>>
    /\ status_checks = << >>
    /\ now = 0
    /\ uuids = 0
    /\ provider_calls = 0
    /\ request = NoRequest
    /\ response = NoResponse
    /\ handled = NotHandled
    /\ inflight = << >>
    /\ weather_in = Reading(0, 0, 0, 0)
    /\ risk_out = NoRisk

\* every request is served at a later clock reading than the one before
Served(req, endpoint) ==
    /\ now < MaxRequests
    /\ Endpoint(req) = endpoint
    /\ request' = req
    /\ now' = now + 1
    /\ UNCHANGED <<WEATHER_API_KEY, inflight, weather_in, risk_out>>

(***************************************************************************)
(* Handlers                                                                *)
(***************************************************************************)

\* GET /api/weather/{city}
get_weather_by_city(req) ==
    /\ Served(req, "get_weather_by_city")
    /\ UNCHANGED status_checks
    /\ IF KeyMissing(WEATHER_API_KEY)
       THEN /\ response' = HTTPException(500, "Weather API key not configured")
            /\ handled' = [endpoint |-> "get_weather_by_city", calls |-> 0, outcomes |-> << >>]
            /\ UNCHANGED <<weather_data, alerts, uuids, provider_calls>>
       ELSE \E outcome \in ProviderOutcomes :
            /\ provider_calls' = provider_calls + 1
            /\ handled' = [endpoint |-> "get_weather_by_city", calls |-> 1,
                           outcomes |-> <<outcome>>]
            /\ IF outcome.kind = "exception"
               THEN /\ response' = HTTPException(400, "Weather API error: " \o outcome.error)
                    /\ UNCHANGED <<weather_data, alerts, uuids>>
               ELSE IF raise_for_status(outcome.status_code)
               THEN /\ response' = HTTPException(400, "Weather API error: "
                                                   \o HTTPErrorText(outcome.status_code))
                    /\ UNCHANGED <<weather_data, alerts, uuids>>
               ELSE IF ~IsObservation(outcome.body)
               THEN /\ response' = InternalServerError
                    /\ UNCHANGED <<weather_data, alerts, uuids>>
               ELSE LET data == outcome.body
                        risk == calculate_disaster_risk(data)
                        risk_level == risk[1]
                        risk_score == risk[2]
                        disaster_type == risk[3]
                        weather_obj == WeatherData(data, risk_level, risk_score, uuids + 1, now)
                        alert == DisasterAlert(data.name, disaster_type, risk_level,
                                               AlertMessage(data, risk_level, disaster_type),
                                               uuids + 2, now)
                    IN  /\ weather_data' = insert_one(weather_data, weather_obj)
                        /\ IF NeedsAlert(risk_level)
                           THEN /\ alerts' = insert_one(alerts, alert)
                                /\ uuids' = uuids + 2
                           ELSE /\ UNCHANGED alerts
                                /\ uuids' = uuids + 1
                        /\ response' = [status |-> 200, body |-> weather_obj]

\* GET /api/weather/coordinates/{lat}/{lon}
get_weather_by_coordinates(req) ==
    /\ Served(req, "get_weather_by_coordinates")
    /\ UNCHANGED <<status_checks, alerts>>
    /\ IF KeyMissing(WEATHER_API_KEY)
       THEN /\ response' = HTTPException(500, "Weather API key not configured")
            /\ handled' = [endpoint |-> "get_weather_by_coordinates", calls |-> 0,
                           outcomes |-> << >>]
            /\ UNCHANGED <<weather_data, uuids, provider_calls>>
       ELSE \E outcome \in ProviderOutcomes :
            /\ provider_calls' = provider_calls + 1
            /\ handled' = [endpoint |-> "get_weather_by_coordinates", calls |-> 1,
                           outcomes |-> <<outcome>>]
            /\ IF outcome.kind = "exception"
               THEN /\ response' = HTTPException(400, "Weather API error: " \o outcome.error)
                    /\ UNCHANGED <<weather_data, uuids>>
               ELSE IF raise_for_status(outcome.status_code)
               THEN /\ response' = HTTPException(400, "Weather API error: "
                                                   \o HTTPErrorText(outcome.status_code))
                    /\ UNCHANGED <<weather_data, uuids>>
               ELSE IF ~IsObservation(outcome.body)
               THEN /\ response' = InternalServerError
                    /\ UNCHANGED <<weather_data, uuids>>
               ELSE LET data == outcome.body
                        risk == calculate_disaster_risk(data)
                        weather_obj == WeatherData(data, risk[1], risk[2], uuids + 1, now)
                    IN  /\ weather_data' = insert_one(weather_data, weather_obj)
                        /\ uuids' = uuids + 1
                        /\ response' = [status |-> 200, body |-> weather_obj]

\* to_list(length) cap of GET /api/alerts
AlertsLimit == 100

\* to_list(length) cap of GET /api/status
StatusLimit == 1000

\* find({"active": True})
find_active(docs) == SelectSeq(docs, LAMBDA d : d.active = TRUE)

Reverse(s) == [i \in 1..Len(s) |-> s[Len(s) + 1 - i]]

RECURSIVE DescendingFrom(_, _, _)
DescendingFrom(docs, t, lowest) ==
    IF t < lowest THEN << >>
    ELSE SelectSeq(docs, LAMBDA d : d.timestamp = t) \o DescendingFrom(docs, t - 1, lowest)

\* variant: ascending order (direction 1)
sort_timestamp_Ascending(docs) ==
    IF docs = << >> THEN << >>
    ELSE LET stamps == {docs[i].timestamp : i \in 1..Len(docs)}
             newest == CHOOSE t \in stamps : \A u \in stamps : u <= t
             oldest == CHOOSE t \in stamps : \A u \in stamps : t <= u
         IN  Reverse(DescendingFrom(docs, newest, oldest))

\* sort("timestamp", -1): documents by timestamp, newest first; documents
\* with equal timestamps stay in the order of the sequence handed in
sort_timestamp(docs) ==
    IF docs = << >> THEN << >>
    ELSE LET stamps == {docs[i].timestamp : i \in 1..Len(docs)}
             newest == CHOOSE t \in stamps : \A u \in stamps : u <= t
             oldest == CHOOSE t \in stamps : \A u \in stamps : t <= u
         IN  DescendingFrom(docs, newest, oldest)

\* variant: the cursor is drained without a cap
to_list_Unbounded(cursor, length) == cursor

\* cursor.to_list(length)
to_list(cursor, length) ==
    IF Len(cursor) <= length THEN cursor ELSE SubSeq(cursor, 1, length)

\* GET /api/alerts; the store does not fix the order of equal timestamps,
\* so either order of the collection may be the one that is sorted
get_active_alerts(req) ==
    /\ Served(req, "get_active_alerts")
    /\ \E natural \in {alerts, Reverse(alerts)} :
         response' = [status |-> 200,
                      body |-> to_list(sort_timestamp(find_active(natural)), AlertsLimit)]
    /\ handled' = [endpoint |-> "get_active_alerts", calls |-> 0, outcomes |-> << >>]
    /\ UNCHANGED <<weather_data, alerts, status_checks, uuids, provider_calls>>

\* the hard-coded demo list; latitude and longitude are not used by any rule
\* and are kept as written
DemoEntry(city, country, lat, lon, t, h, p, w, description, level, score, type) ==
    [city |-> city, country |-> country, lat |-> lat, lon |-> lon,
     temperature |-> t, humidity |-> h, pressure |-> p, wind_speed |-> w,
     description |-> description, risk_level |-> level, risk_score |-> score,
     disaster_type |-> type]

DemoData ==
    << DemoEntry("Mumbai", "IN", "19.0760", "72.8777", 42, 85, 995, 22,
                 "heavy rain with strong winds", "HIGH", Tenths(9),
                 "Severe Storm/Cyclone, Extreme Heatwave"),
       DemoEntry("Delhi", "IN", "28.6139", "77.2090", 46, 25, 1025, 8,
                 "clear sky, very hot", "HIGH", Tenths(8),
                 "Extreme Heatwave, Drought Risk"),
       DemoEntry("London", "GB", "51.5074", "-0.1278", 22, 65, 1015, 5,
                 "partly cloudy", "LOW", Tenths(1), "Normal Conditions"),
       DemoEntry("Tokyo", "JP", "35.6762", "139.6503", 38, 78, 1002, 18,
                 "thunderstorm with heavy rain", "MEDIUM", Tenths(6), "Storm, Heatwave"),
       DemoEntry("New York", "US", "40.7128", "-74.0060", 25, 55, 1012, 7,
                 "clear sky", "LOW", Tenths(1), "Normal Conditions"),
       DemoEntry("Sydney", "AU", "-33.8688", "151.2093", 35, 40, 1020, 12,
                 "sunny and dry", "MEDIUM", Tenths(4), "Drought Risk"),
       DemoEntry("Dubai", "AE", "25.2048", "55.2708", 48, 20, 1018, 15,
                 "clear sky, extreme heat", "HIGH", Tenths(8), "Extreme Heatwave"),
       DemoEntry("Singapore", "SG", "1.3521", "103.8198", 32, 88, 998, 25,
                 "tropical storm approaching", "HIGH", Tenths(7), "Severe Storm/Cyclone") >>

major_cities ==
    << "Mumbai", "Delhi", "Kolkata", "Chennai", "Bangalore", "Hyderabad",
       "New York", "London", "Tokyo", "Sydney", "Dubai", "Singapore" >>

\* longest run of consecutive cities whose fetch fails in one bulk request
\* (or every city fails)
MaxFailRun == 1

BulkFailSets ==
    { {i \in 1..Len(major_cities) : lo <= i /\ i < lo + n} :
        lo \in 1..Len(major_cities), n \in 0..MaxFailRun }
        \cup { 1..Len(major_cities) }

\* the ways one fetch of the bulk loop fails: requests.get raises, the
\* status is not 200, or the 200 body lacks the keys the loop subscripts
BulkBadOutcomes ==
    {o \in ProviderOutcomes :
        \/ o.kind = "exception"
        \/ o.kind = "response" /\ o.status_code = 404
        \/ o.kind = "response" /\ o.status_code = 200 /\ ~IsObservation(o.body)}

\* the observation the i-th fetch of the bulk loop answers with when it
\* succeeds: the four kinds of weather in turn, under the queried city's name
BulkData(i) ==
    LET kinds == <<"Mumbai", "Tokyo", "London", "Oslo">>
        like == CHOOSE d \in ProviderData : d.name = kinds[((i - 1) % 4) + 1]
    IN  [like EXCEPT !.name = major_cities[i]]

\* the dict the bulk loop appends for one fetched city
BulkEntry(data) ==
    LET risk == calculate_disaster_risk(data)
    IN  [city |-> data.name, country |-> data.sys.country,
         lat |-> data.coord.lat, lon |-> data.coord.lon,
         temperature |-> data.main.temp, humidity |-> data.main.humidity,
         pressure |-> data.main.pressure, wind_speed |-> data.wind.speed,
         description |-> data.weather[1].description,
         risk_level |-> risk[1], risk_score |-> risk[2], disaster_type |-> risk[3]]

\* one pass of the loop body: one requests.get, and the entry appended for
\* its outcome, if any (an exception anywhere in the body is swallowed)
BulkStep(acc, outcome) ==
    LET called == [acc EXCEPT !.calls = acc.calls + 1]
    IN  IF outcome.kind = "exception" THEN called
        ELSE IF outcome.status_code # 200 THEN called
        ELSE IF ~IsObservation(outcome.body) THEN called
        ELSE [called EXCEPT !.weather_data = Append(acc.weather_data, BulkEntry(outcome.body))]

\* variant: the loop ends at the first city that yields no entry
RECURSIVE BulkLoop_StopAtFailure(_, _, _)
BulkLoop_StopAtFailure(acc, outcomes, i) ==
    IF i > Len(outcomes) THEN acc
    ELSE LET next == BulkStep(acc, outcomes[i])
         IN  IF next.weather_data = acc.weather_data THEN next
             ELSE BulkLoop_StopAtFailure(next, outcomes, i + 1)

\* for city in major_cities: outcomes[i] is what the i-th requests.get does
RECURSIVE BulkLoop(_, _, _)
BulkLoop(acc, outcomes, i) ==
    IF i > Len(outcomes) THEN acc
    ELSE BulkLoop(BulkStep(acc, outcomes[i]), outcomes, i + 1)

\* GET /api/weather/multiple
get_weather_multiple_cities(req) ==
    /\ Served(req, "get_weather_multiple_cities")
    /\ UNCHANGED <<weather_data, alerts, status_checks, uuids>>
    /\ IF KeyMissing(WEATHER_API_KEY) \/ WEATHER_API_KEY = DemoKey
       THEN /\ response' = [status |-> 200, body |-> DemoData]
            /\ handled' = [endpoint |-> "get_weather_multiple_cities", calls |-> 0,
                           outcomes |-> << >>]
            /\ UNCHANGED provider_calls
       ELSE \E failing \in BulkFailSets :
            \E bad \in BulkBadOutcomes :
              LET outcomes ==
                    [i \in 1..Len(major_cities) |->
                        IF i \in failing THEN bad
                        ELSE [kind |-> "response", status_code |-> 200,
                              body |-> BulkData(i)]]
                  done == BulkLoop([weather_data |-> << >>, calls |-> 0], outcomes, 1)
              IN  /\ response' = [status |-> 200, body |-> done.weather_data]
                  /\ handled' = [endpoint |-> "get_weather_multiple_cities",
                                 calls |-> done.calls, outcomes |-> outcomes]
                  /\ provider_calls' = provider_calls + done.calls

\* GET /api/
root(req) ==
    /\ Served(req, "root")
    /\ response' = [status |-> 200, body |-> [message |-> "Disaster Management System API"]]
    /\ handled' = [endpoint |-> "root", calls |-> 0, outcomes |-> << >>]
    /\ UNCHANGED <<weather_data, alerts, status_checks, uuids, provider_calls>>

\* POST /api/status
create_status_check(req) ==
    /\ Served(req, "create_status_check")
    /\ LET status_obj == StatusCheck(req.json.client_name, uuids + 1, now)
       IN  /\ status_checks' = insert_one(status_checks, status_obj)
           /\ response' = [status |-> 200, body |-> status_obj]
    /\ uuids' = uuids + 1
    /\ handled' = [endpoint |-> "create_status_check", calls |-> 0, outcomes |-> << >>]
    /\ UNCHANGED <<weather_data, alerts, provider_calls>>

\* GET /api/status
get_status_checks(req) ==
    /\ Served(req, "get_status_checks")
    /\ response' = [status |-> 200, body |-> to_list(status_checks, StatusLimit)]
    /\ handled' = [endpoint |-> "get_status_checks", calls |-> 0, outcomes |-> << >>]
    /\ UNCHANGED <<weather_data, alerts, status_checks, uuids, provider_calls>>

\* no route takes the request: 404, or 405 when only the method differs
no_route(req) ==
    /\ \E code \in {"404", "405"} :
         /\ Served(req, code)
         /\ response' = [status |-> IF code = "404" THEN 404 ELSE 405,
                         detail |-> IF code = "404" THEN "Not Found" ELSE "Method Not Allowed"]
         /\ handled' = [endpoint |-> code, calls |-> 0, outcomes |-> << >>]
    /\ UNCHANGED <<weather_data, alerts, status_checks, uuids, provider_calls>>

Next ==
    \/ \E req \in Requests : get_weather_by_city(req)
    \/ \E req \in Requests : get_weather_by_coordinates(req)
    \/ \E req \in Requests : get_active_alerts(req)
    \/ \E req \in Requests : get_weather_multiple_cities(req)
    \/ \E req \in Requests : root(req)
    \/ \E req \in Requests : create_status_check(req)
    \/ \E req \in Requests : get_status_checks(req)
    \/ \E req \in Requests : no_route(req)

Spec == Init /\ [][Next]_vars

(***************************************************************************)
(* Properties of the handlers (checked under Spec)                         *)
(***************************************************************************)

SingleCityEndpoints == {"get_weather_by_city", "get_weather_by_coordinates"}

\* the provider call of a single-city request answered 200 with an observation
FetchedBy(h) ==
    /\ h.calls = 1
    /\ h.outcomes[1].kind = "response"
    /\ h.outcomes[1].status_code = 200
    /\ IsObservation(h.outcomes[1].body)

\* the provider call of a single-city request raised or answered non-2xx
FailedBy(h) ==
    /\ h.calls >= 1
    /\ \/ h.outcomes[1].kind = "exception"
       \/ /\ h.outcomes[1].kind = "response"
          /\ h.outcomes[1].status_code \notin 200..299

RECURSIVE ClassifiedEntries(_, _)
ClassifiedEntries(outcomes, i) ==
    IF i > Len(outcomes) THEN << >>
    ELSE LET o == outcomes[i]
         IN  (IF o.kind = "response" /\ o.status_code = 200 /\ IsObservation(o.body)
              THEN << calculate_disaster_risk(o.body) >> ELSE << >>)
                 \o ClassifiedEntries(outcomes, i + 1)

HasField(r, f, v) == f \in DOMAIN r /\ r[f] = v

\* C6: every successful weather request returns risk_level, risk_score and
\* disaster_type exactly as the classifier computed them for the fetched
\* snapshot, and an alert derived from the request carries the classifier's
\* risk_level and disaster_type.
C6_ClassifierOutputVerbatim ==
    /\ (handled.endpoint \in SingleCityEndpoints /\ response.status = 200) =>
          LET risk == calculate_disaster_risk(handled.outcomes[1].body)
          IN  /\ HasField(response.body, "risk_level", risk[1])
              /\ HasField(response.body, "risk_score", risk[2])
              /\ HasField(response.body, "disaster_type", risk[3])
              /\ (handled.endpoint = "get_weather_by_city" /\ risk[1] \in {"MEDIUM", "HIGH"}) =>
                    /\ alerts # << >>
                    /\ alerts[Len(alerts)].risk_level = risk[1]
                    /\ alerts[Len(alerts)].disaster_type = risk[3]
    /\ (handled.endpoint = "get_weather_multiple_cities" /\ handled.calls > 0) =>
          LET expected == ClassifiedEntries(handled.outcomes, 1)
          IN  /\ Len(response.body) = Len(expected)
              /\ \A i \in 1..Len(expected) :
                    /\ HasField(response.body[i], "risk_level", expected[i][1])
                    /\ HasField(response.body[i], "risk_score", expected[i][2])
                    /\ HasField(response.body[i], "disaster_type", expected[i][3])

\* C7: with no provider key, GET /api/weather/multiple is answered 200 with
\* the eight-city demo list and without a provider call.
C7_DemoListOverHttp ==
    (WEATHER_API_KEY = NoneValue /\ request = Get(<<"api", "weather", "multiple">>)) =>
        /\ response.status = 200
        /\ HasField(response, "body", DemoData)
        /\ Len(DemoData) = 8
        /\ handled.calls = 0

\* C8: with the provider key absent, a step that serves a single-city
\* endpoint answers the configuration error (500), calls the provider not at
\* all and leaves the three collections as they were.
C8_NoKeyConfigurationError ==
    [][ (WEATHER_API_KEY \in {NoneValue, ""} /\ handled'.endpoint \in SingleCityEndpoints) =>
            /\ response' = [status |-> 500, detail |-> "Weather API key not configured"]
            /\ handled'.calls = 0
            /\ provider_calls' = provider_calls
            /\ weather_data' = weather_data
            /\ alerts' = alerts
            /\ status_checks' = status_checks
      ]_vars

\* the coordinates endpoint refused without a key, over collections that hold
\* documents
C8_Witness ==
    /\ WEATHER_API_KEY = NoneValue
    /\ handled.endpoint = "get_weather_by_coordinates"
    /\ response.status = 500
    /\ provider_calls = 0
    /\ weather_data # << >> /\ alerts # << >> /\ status_checks # << >>

\* C9: when the provider call of a single-city request raises or answers
\* with a non-success status, the step answers 400 with the cause in the
\* detail, has called the provider exactly once, and adds neither a snapshot
\* nor an alert.
C9_ProviderFailureIs400 ==
    [][ (handled'.endpoint \in SingleCityEndpoints /\ FailedBy(handled')) =>
            /\ response'.status = 400
            /\ response'.detail =
                  "Weather API error: "
                     \o (IF handled'.outcomes[1].kind = "exception"
                         THEN handled'.outcomes[1].error
                         ELSE HTTPErrorText(handled'.outcomes[1].status_code))
            /\ handled'.calls = 1
            /\ provider_calls' = provider_calls + 1
            /\ weather_data' = weather_data
            /\ alerts' = alerts
      ]_vars

\* a city request whose provider call answered 404, over non-empty collections
C9_Witness ==
    /\ handled.endpoint = "get_weather_by_city"
    /\ handled.calls = 1
    /\ handled.outcomes[1].kind = "response"
    /\ handled.outcomes[1].status_code = 404
    /\ response.status = 400
    /\ weather_data # << >>

\* the cities of a bulk request whose fetch answered 200 with an observation
BulkSucceeded(h) ==
    {i \in 1..Len(h.outcomes) :
        /\ h.outcomes[i].kind = "response"
        /\ h.outcomes[i].status_code = 200
        /\ IsObservation(h.outcomes[i].body)}

\* C11: with a real provider key a step of the bulk handler calls the
\* provider once for each of the twelve cities whatever fails in between,
\* answers 200, and returns one entry per city whose fetch succeeded, in the
\* order of the fixed list, each built from that city's observation; it
\* changes neither the snapshot nor the alert store.
C11_BulkSkipsFailedCities ==
    [][ ( /\ handled'.endpoint = "get_weather_multiple_cities"
          /\ WEATHER_API_KEY \notin {NoneValue, "", DemoKey} ) =>
            LET ok == BulkSucceeded(handled')
                body == response'.body
            IN  /\ response'.status = 200
                /\ Len(handled'.outcomes) = 12
                /\ handled'.calls = 12
                /\ provider_calls' = provider_calls + 12
                /\ Len(body) = Cardinality(ok)
                /\ \A i \in ok :
                      LET k == Cardinality({j \in ok : j <= i})
                          data == handled'.outcomes[i].body
                      IN  /\ body[k].city = data.name
                          /\ data.name = major_cities[i]
                          /\ body[k].temperature = data.main.temp
                          /\ body[k].description = data.weather[1].description
                /\ weather_data' = weather_data
                /\ alerts' = alerts
      ]_vars

\* the third fetch raised; Chennai, fourth in the list, is the third of the
\* eleven entries and Singapore the last
C11_Witness ==
    /\ handled.endpoint = "get_weather_multiple_cities"
    /\ handled.calls = 12
    /\ handled.outcomes[3].kind = "exception"
    /\ Len(response.body) = 11
    /\ response.body[3].city = "Chennai"
    /\ response.body[11].city = "Singapore"

\* number of stored alerts of one city
AlertsOf(store, city) == Cardinality({i \in 1..Len(store) : store[i].city = city})

\* C12: every stored alert is active; a step never removes or changes a
\* stored alert (the store only grows at its end); and every successful city
\* request classified MEDIUM or HIGH adds one more alert for the observed
\* city, with an id no stored alert has, also when alerts for that city are
\* stored already - so n such requests leave n more alerts for the city.
C12_AlertsWriteOnceNoDedup ==
    /\ [](\A i \in 1..Len(alerts) : alerts[i].active = TRUE)
    /\ [][ /\ Len(alerts') >= Len(alerts)
           /\ SubSeq(alerts', 1, Len(alerts)) = alerts
           /\ ( /\ handled'.endpoint = "get_weather_by_city"
                /\ FetchedBy(handled')
                /\ calculate_disaster_risk(handled'.outcomes[1].body)[1] \in {"MEDIUM", "HIGH"} ) =>
                 LET city == handled'.outcomes[1].body.name
                 IN  /\ AlertsOf(alerts', city) = AlertsOf(alerts, city) + 1
                     /\ \A i \in 1..Len(alerts) :
                           alerts[i].id # alerts'[Len(alerts')].id
         ]_vars

\* two city requests of this run have each left an alert for the same city,
\* with the same level and disaster type, next to the one stored before
C12_Witness ==
    /\ Len(alerts) = 3
    /\ \A i \in 1..3 : alerts[i].city = "Mumbai" /\ alerts[i].active = TRUE
    /\ alerts[2].id > 0 /\ alerts[3].id > alerts[2].id
    /\ alerts[2].disaster_type = alerts[3].disaster_type
    /\ alerts[2].risk_level = alerts[3].risk_level
    /\ AlertsOf(alerts, "Mumbai") = 3

(***************************************************************************)
(* Alert listing harness: GET /api/alerts over alert stores of every size  *)
(* up to MaxAlerts, as left by that many alerting city requests, with      *)
(* several timestamp layouts and, in half of them, one alert whose active  *)
(* flag was cleared in the store.                                          *)
(***************************************************************************)

\* largest alert store listed
MaxAlerts == 102

StampLayouts == {"ascending", "descending", "equal", "cyclic"}

StampOf(layout, i, n) ==
    CASE layout = "ascending" -> i
      [] layout = "descending" -> n - i
      [] layout = "equal" -> 0
      [] OTHER -> (3 * i) % 7

\* the i-th stored snapshot and alert of such a store
StoredSnapshot(layout, i, n) ==
    [EarlierSnapshot EXCEPT !.id = 2 * i - 1, !.timestamp = StampOf(layout, i, n)]

StoredAlert(layout, cleared, i, n) ==
    [EarlierAlert EXCEPT !.id = 2 * i, !.timestamp = StampOf(layout, i, n),
                         !.active = ~(cleared /\ i = 2)]

InitAlerts ==
    /\ WEATHER_API_KEY = "live-key"
    /\ \E n \in 0..MaxAlerts : \E layout \in StampLayouts : \E cleared \in BOOLEAN :
         /\ weather_data = [i \in 1..n |-> StoredSnapshot(layout, i, n)]
         /\ alerts = [i \in 1..n |-> StoredAlert(layout, cleared, i, n)]
         /\ uuids = 2 * n
    /\ status_checks = << >>
    /\ now = 0
    /\ provider_calls = 0
    /\ request = NoRequest
    /\ response = NoResponse
    /\ handled = NotHandled
    /\ inflight = << >>
    /\ weather_in = Reading(0, 0, 0, 0)
    /\ risk_out = NoRisk

NextAlerts == \E req \in Requests : get_active_alerts(req)

SpecAlerts == InitAlerts /\ [][NextAlerts]_vars

ActiveStored == {i \in 1..Len(alerts) : alerts[i].active}

\* C10: whatever the alert store holds, the list GET /api/alerts returns has
\* at most 100 records, each of them a distinct stored alert that is active,
\* in descending timestamp order; it has all active alerts when there are at
\* most 100, and otherwise 100 of them, none older than an active alert that
\* was left out.
C10_NewestHundredActive ==
    handled.endpoint = "get_active_alerts" =>
        LET body == response.body
            returned == {body[k].id : k \in 1..Len(body)}
        IN  /\ Len(body) <= 100
            /\ Cardinality(returned) = Len(body)
            /\ \A k \in 1..Len(body) :
                  /\ body[k].active = TRUE
                  /\ \E i \in ActiveStored : alerts[i] = body[k]
            /\ \A k \in 1..(Len(body) - 1) : body[k].timestamp >= body[k + 1].timestamp
            /\ Len(body) = IF Cardinality(ActiveStored) <= 100
                           THEN Cardinality(ActiveStored) ELSE 100
            /\ \A i \in ActiveStored :
                  alerts[i].id \notin returned =>
                      \A k \in 1..Len(body) : body[k].timestamp >= alerts[i].timestamp

\* more than 100 active alerts and a cleared one in the store, 100 returned,
\* the first newer than the last
C10_Witness ==
    /\ handled.endpoint = "get_active_alerts"
    /\ Cardinality(ActiveStored) > 100
    /\ Cardinality(ActiveStored) < Len(alerts)
    /\ Len(response.body) = 100
    /\ response.body[1].timestamp > response.body[100].timestamp

(***************************************************************************)
(* Concurrent city requests, await by await.  get_weather_by_city runs     *)
(* without suspension up to its first await (requests.get blocks the       *)
(* event loop), then suspends at each insert_one, where other requests     *)
(* run and where the write may fail.                                       *)
(***************************************************************************)

\* number of city requests in flight together
MaxConcurrent == 2

\* what an awaited insert_one can do: store the document and return; raise
\* with nothing stored; raise although the store applied the write
WriteResults == {"stored", "lost", "stored_unacknowledged"}

Idle == [pc |-> "idle"]

\* variant: the alert is written before the snapshot
StepAfter_AlertFirst(pc, risk_level) ==
    CASE pc = "fetched" -> IF NeedsAlert(risk_level) THEN "insert_alert" ELSE "insert_snapshot"
      [] pc = "insert_alert" -> "insert_snapshot"
      [] OTHER -> "return"

\* the order of the handler's statements after the fetch: insert the
\* snapshot, then the alert if one is needed, then return
StepAfter(pc, risk_level) ==
    CASE pc = "fetched" -> "insert_snapshot"
      [] pc = "insert_snapshot" -> IF NeedsAlert(risk_level) THEN "insert_alert" ELSE "return"
      [] OTHER -> "return"

InitSteps ==
    /\ WEATHER_API_KEY \in KeyValues
    /\ \/ weather_data = << >> /\ alerts = << >>
       \/ weather_data = <<EarlierSnapshot>> /\ alerts = <<EarlierAlert>>
    /\ status_checks = << >>
    /\ now = 0
    /\ uuids = 0
    /\ provider_calls = 0
    /\ request = NoRequest
    /\ response = NoResponse
    /\ handled = NotHandled
    /\ inflight = [p \in 1..MaxConcurrent |-> Idle]
    /\ weather_in = Reading(0, 0, 0, 0)
    /\ risk_out = NoRisk

Failed(at, answer) == [pc |-> "failed", at |-> at, response |-> answer]

\* from the start of the handler to its first await: key check, requests.get,
\* classification, construction of the WeatherData object
city_fetch(p) ==
    /\ inflight[p].pc = "idle"
    /\ now' = now + 1
    /\ UNCHANGED <<WEATHER_API_KEY, weather_data, alerts, status_checks,
                   request, response, handled, weather_in, risk_out>>
    /\ IF KeyMissing(WEATHER_API_KEY)
       THEN /\ inflight' = [inflight EXCEPT ![p] =
                   Failed("key", HTTPException(500, "Weather API key not configured"))]
            /\ UNCHANGED <<uuids, provider_calls>>
       ELSE \E outcome \in ProviderOutcomes :
            /\ provider_calls' = provider_calls + 1
            /\ IF outcome.kind = "exception"
               THEN /\ inflight' = [inflight EXCEPT ![p] =
                           Failed("fetch", HTTPException(400, "Weather API error: "
                                                               \o outcome.error))]
                    /\ UNCHANGED uuids
               ELSE IF raise_for_status(outcome.status_code)
               THEN /\ inflight' = [inflight EXCEPT ![p] =
                           Failed("fetch", HTTPException(400, "Weather API error: "
                                                  \o HTTPErrorText(outcome.status_code)))]
                    /\ UNCHANGED uuids
               ELSE IF ~IsObservation(outcome.body)
               THEN /\ inflight' = [inflight EXCEPT ![p] = Failed("fetch", InternalServerError)]
                    /\ UNCHANGED uuids
               ELSE LET data == outcome.body
                        risk == calculate_disaster_risk(data)
                    IN  /\ inflight' = [inflight EXCEPT ![p] =
                               [pc |-> StepAfter("fetched", risk[1]),
                                data |-> data,
                                risk |-> risk,
                                weather_obj |-> WeatherData(data, risk[1], risk[2],
                                                            uuids + 1, now)]]
                        /\ uuids' = uuids + 1

\* await db.weather_data.insert_one(weather_obj.dict())
city_insert_snapshot(p) ==
    /\ inflight[p].pc = "insert_snapshot"
    /\ \E result \in WriteResults :
         /\ weather_data' = IF result = "lost" THEN weather_data
                            ELSE insert_one(weather_data, inflight[p].weather_obj)
         /\ inflight' = [inflight EXCEPT ![p] =
                IF result = "stored"
                THEN [inflight[p] EXCEPT !.pc = StepAfter("insert_snapshot", inflight[p].risk[1])]
                ELSE Failed("insert_snapshot", InternalServerError)]
    /\ UNCHANGED <<WEATHER_API_KEY, alerts, status_checks, now, uuids, provider_calls,
                   request, response, handled, weather_in, risk_out>>

\* alert = DisasterAlert(...); await db.alerts.insert_one(alert.dict())
city_insert_alert(p) ==
    /\ inflight[p].pc = "insert_alert"
    /\ LET data == inflight[p].data
           risk == inflight[p].risk
           alert == DisasterAlert(data.name, risk[3], risk[1],
                                  AlertMessage(data, risk[1], risk[3]), uuids + 1, now)
       IN  \E result \in WriteResults :
             /\ alerts' = IF result = "lost" THEN alerts ELSE insert_one(alerts, alert)
             /\ inflight' = [inflight EXCEPT ![p] =
                    IF result = "stored"
                    THEN [inflight[p] EXCEPT !.pc = StepAfter("insert_alert", risk[1])]
                    ELSE Failed("insert_alert", InternalServerError)]
    /\ uuids' = uuids + 1
    /\ UNCHANGED <<WEATHER_API_KEY, weather_data, status_checks, now, provider_calls,
                   request, response, handled, weather_in, risk_out>>

\* return weather_obj.dict()
city_return(p) ==
    /\ inflight[p].pc = "return"
    /\ inflight' = [inflight EXCEPT ![p] =
           [pc |-> "done", response |-> [status |-> 200, body |-> inflight[p].weather_obj]]]
    /\ UNCHANGED <<WEATHER_API_KEY, weather_data, alerts, status_checks, now, uuids,
                   provider_calls, request, response, handled, weather_in, risk_out>>

NextSteps ==
    \/ \E p \in 1..MaxConcurrent : city_fetch(p)
    \/ \E p \in 1..MaxConcurrent : city_insert_snapshot(p)
    \/ \E p \in 1..MaxConcurrent : city_insert_alert(p)
    \/ \E p \in 1..MaxConcurrent : city_return(p)

SpecSteps == InitSteps /\ [][NextSteps]_vars

\* C13: in every state, whatever the interleaving of the requests and
\* whichever writes failed, every stored alert has a stored snapshot of the
\* same city with the same risk_level, and a request that is about to write
\* its alert has its own snapshot stored already.
C13_AlertHasSnapshot ==
    /\ \A i \in 1..Len(alerts) :
          \E j \in 1..Len(weather_data) :
              /\ weather_data[j].city = alerts[i].city
              /\ weather_data[j].risk_level = alerts[i].risk_level
    /\ \A p \in DOMAIN inflight :
          inflight[p].pc = "insert_alert" =>
              \E j \in 1..Len(weather_data) : weather_data[j] = inflight[p].weather_obj

\* one request ended on a failed alert write while another, started before
\* that, stands between its snapshot write and its alert write; an alert of
\* this run is stored
C13_Witness ==
    /\ inflight[1].pc = "failed"
    /\ inflight[1].at = "insert_alert"
    /\ inflight[2].pc = "insert_alert"
    /\ \E i \in 1..Len(alerts) : alerts[i].id > 0
    /\ Len(weather_data) > Len(alerts)

====
